---------------------------- MODULE Spec2Model ----------------------------
(***************************************************************************)
(* Model of the trading bot of robo_trader_cripto: order sizing            *)
(* (TradingBot.ajustar_quantidade, TradeExecutor.executar_ordem), the      *)
(* position ledger (DatabaseManager, TradingBot.comprar / vender) and the  *)
(* trailing stop-loss of TradingBot.executar_estrategia_venda.             *)
(*                                                                         *)
(* Numbers.  Quantities are integers counted in the resolution of the      *)
(* quantity strings (1e-8 of a coin, the resolution of "{:0.8f}" and of    *)
(* round(x, 8)); a stepSize Decimal is coefficient * 10^exponent and the   *)
(* model takes 10^exponent as that unit, so stepSize is its coefficient.   *)
(* Prices are integer amounts of money per quantity unit.  Python floats   *)
(* are modelled by exact rational arithmetic: a quotient is carried as     *)
(* numerator and denominator until the code rounds it.                     *)
(***************************************************************************)
EXTENDS Integers, Sequences, FiniteSets, TLC

VARIABLES
    transacoes,         \* table transacoes: sequence of rows, in id order
    ganhos,             \* table ganhos: sequence of rows
    resumo_financeiro,  \* table resumo_financeiro: sequence of rows
    stop_loss,          \* table stop_loss: symbol -> row or SemLinha
    ciclo,              \* which strategy loop is running
    idx,                \* position of the loop in self.symbols
    ultima,             \* what the last call did: inputs read, orders sent
    relogio,            \* datetime.now(), in minutes
    ultimo_timestamp    \* content of ultima_execucao_stoploss.txt, or Nenhum

vars ==
    <<transacoes, ganhos, resumo_financeiro, stop_loss, ciclo, idx, ultima, relogio,
      ultimo_timestamp>>

banco == <<transacoes, ganhos, resumo_financeiro, stop_loss>>

\* the state of the stop-loss update script
script == <<relogio, ultimo_timestamp>>

-----------------------------------------------------------------------------
(* Values standing for Python's None, a missing filter, a raised exception; *)
(* negative, so that none is a quantity, a price or an amount               *)

Nenhum == 0 - 1

Ausente == 0 - 2

Erro == 0 - 3

-----------------------------------------------------------------------------
(* Arithmetic on quotients of naturals *)

\* Decimal.quantize(..., rounding=ROUND_UP) of num/den to whole units
ArredondaParaCima(num, den) == (num + den - 1) \div den

\* Decimal.quantize(..., rounding=ROUND_DOWN), float floor of num/den
ArredondaParaBaixo(num, den) == num \div den

\* round-half-even of num/den to a whole number, as str.format rounds
ArredondaMeioPar(num, den) ==
    LET q == num \div den
        r == num % den
    IN  IF 2 * r < den THEN q
        ELSE IF 2 * r > den THEN q + 1
        ELSE IF q % 2 = 0 THEN q ELSE q + 1

\* "{:f}".format(x): six decimals, i.e. multiples of 100 quantity units
Formato6(num, den) == 100 * ArredondaMeioPar(num, 100 * den)

Max(a, b) == IF a >= b THEN a ELSE b

Min(a, b) == IF a <= b THEN a ELSE b

-----------------------------------------------------------------------------
(* Exchange information of a symbol (client.get_symbol_info,               *)
(* client.get_exchange_info): whether the symbol is known, whether it has  *)
(* a LOT_SIZE filter, and its filters; a notional filter is a value or     *)
(* Ausente.                                                                *)

InfoSimbolo(lot, min_notional, notional) ==
    [encontrado |-> TRUE, temLotSize |-> TRUE, LOT_SIZE |-> lot,
     MIN_NOTIONAL |-> min_notional, NOTIONAL |-> notional]

SemLotSize(info) == [info EXCEPT !.temLotSize = FALSE]

Desconhecido(info) == [info EXCEPT !.encontrado = FALSE]

LotSize(minQty, maxQty, stepSize) ==
    [minQty |-> minQty, maxQty |-> maxQty, stepSize |-> stepSize]

\* Decimal("10"), the minimum notional TradingBot uses without a filter
MinNotionalPadraoDecimal == 10

\* filters.get("MIN_NOTIONAL") or filters.get("NOTIONAL"), else Decimal("10")
MinNotionalDoBot(info) ==
    IF info.MIN_NOTIONAL # Ausente THEN info.MIN_NOTIONAL
    ELSE IF info.NOTIONAL # Ausente THEN info.NOTIONAL
    ELSE MinNotionalPadraoDecimal

\* (min_notional / preco).quantize(quantizer, ROUND_UP), then max with minQty
QuantidadeMinima(info, preco) ==
    Max(ArredondaParaCima(MinNotionalDoBot(info), preco), info.LOT_SIZE.minQty)

\* quantidade - (quantidade % step_size), quantized ROUND_DOWN; the desired
\* quantity is the quotient qNum / qDen
PisoNoPasso(qNum, qDen, stepSize) == stepSize * ArredondaParaBaixo(qNum, qDen * stepSize)

\* TradingBot.ajustar_quantidade: the quantity of the returned string, or
\* Erro when the ValueError of a missing symbol or LOT_SIZE filter is raised
ajustar_quantidade(info, qNum, qDen, preco) ==
    IF ~info.encontrado THEN Erro
    ELSE IF ~info.temLotSize THEN Erro
    ELSE LET min_quantity == QuantidadeMinima(info, preco)
             quantidade_ajustada == PisoNoPasso(qNum, qDen, info.LOT_SIZE.stepSize)
             elevada == IF quantidade_ajustada < min_quantity
                        THEN min_quantity
                        ELSE quantidade_ajustada
         IN  Min(elevada, info.LOT_SIZE.maxQty)

-----------------------------------------------------------------------------
(* TradeExecutor: sizing of a market buy *)

\* the minimum notional TradeExecutor uses when the NOTIONAL filter is missing
MinNotionalPadraoExecutor == 0

\* TradeExecutor._get_lot_size_and_min_notional: only the NOTIONAL filter is
\* read; erro stands for the ValueError raised without a LOT_SIZE filter
get_lot_size_and_min_notional(info) ==
    IF ~info.encontrado THEN [erro |-> TRUE]
    ELSE IF ~info.temLotSize THEN [erro |-> TRUE]
    ELSE [erro |-> FALSE, lot_size |-> info.LOT_SIZE,
          min_notional |-> IF info.NOTIONAL # Ausente THEN info.NOTIONAL
                           ELSE MinNotionalPadraoExecutor]

\* TradeExecutor._ajustar_quantidade: round(q - q % step_size, 8) of qNum/qDen
TE_ajustar_quantidade(qNum, qDen, step_size) ==
    step_size * ArredondaParaBaixo(qNum, qDen * step_size)

\* margin of 20% added to the minimum-notional quantity, in tenths
MargemNotionalDecimos == 12

\* margin of 0.1% applied to the balance quantity, in thousandths
MargemSaldoMilesimos == 1001

\* quantity recomputed from the free balance (executar_ordem, lines 214-220)
QuantidadePeloSaldo(saldo, preco, step_size) ==
    TE_ajustar_quantidade(saldo * MargemSaldoMilesimos, preco * 1000, step_size)

\* the buy branch of TradeExecutor.executar_ordem up to the order: Nenhum
\* when it returns None, else the quantity string handed to order_market_buy
DimensionarCompra(quantidade, lot_size, min_notional, preco_atual, saldo) ==
    LET q1 == TE_ajustar_quantidade(quantidade, 1, lot_size.stepSize)
        n1 == preco_atual * q1
        \* lines 177-199: force the quantity up to the minimum notional
        q2 == IF n1 < min_notional
              THEN TE_ajustar_quantidade(
                       Formato6(min_notional * MargemNotionalDecimos, preco_atual * 10),
                       1, lot_size.stepSize)
              ELSE q1
        n2 == preco_atual * q2
        \* lines 202-209: raise to minQty; notional is not recomputed
        q3 == IF q2 < lot_size.minQty THEN lot_size.minQty ELSE q2
        \* lines 214-224: shrink to the balance
        q4 == IF n2 > saldo
              THEN QuantidadePeloSaldo(saldo, preco_atual, lot_size.stepSize)
              ELSE q3
        n4 == IF n2 > saldo THEN preco_atual * q4 ELSE n2
    IN  IF n1 < min_notional /\ n2 < min_notional THEN Nenhum
        ELSE IF n4 < min_notional THEN Nenhum
        ELSE q4

-----------------------------------------------------------------------------
(* DatabaseManager: the tables and the statements run on them.  Amounts of *)
(* a row that are quotients share the row's denominator den: the amount is *)
(* the stored numerator divided by den.                                    *)

Linha(simbolo, tipo, quantidade, preco, valor_total, den, taxa, vendido) ==
    [simbolo |-> simbolo, tipo |-> tipo, quantidade |-> quantidade, preco |-> preco,
     valor_total |-> valor_total, den |-> den, taxa |-> taxa, vendido |-> vendido]

\* DatabaseManager.registrar_transacao: INSERT INTO transacoes
registrar_transacao(tabela, linha) == Append(tabela, linha)

\* DatabaseManager.atualizar_compras:
\* UPDATE transacoes SET vendido = 1 WHERE simbolo = ? AND tipo = 'COMPRA'
\* the UPDATE also clearing the quantity of the rows it closes
atualizar_compras_zera_quantidade(tabela, moeda) ==
    [i \in 1..Len(tabela) |->
        IF tabela[i].simbolo = moeda /\ tabela[i].tipo = "COMPRA"
        THEN [tabela[i] EXCEPT !.vendido = 1, !.quantidade = 0]
        ELSE tabela[i]]

\* the UPDATE without its "simbolo = ?" condition
atualizar_compras_sem_filtro(tabela, moeda) ==
    [i \in 1..Len(tabela) |->
        IF tabela[i].tipo = "COMPRA"
        THEN [tabela[i] EXCEPT !.vendido = 1]
        ELSE tabela[i]]

atualizar_compras(tabela, moeda) ==
    [i \in 1..Len(tabela) |->
        IF tabela[i].simbolo = moeda /\ tabela[i].tipo = "COMPRA"
        THEN [tabela[i] EXCEPT !.vendido = 1]
        ELSE tabela[i]]

RECURSIVE Filtrar(_, _, _)
\* the rows of tabela, in order, that the WHERE clause of obter_transacoes keeps
Filtrar(tabela, simbolo, tipo) ==
    IF tabela = <<>> THEN <<>>
    ELSE LET t == Head(tabela)
             resto == Filtrar(Tail(tabela), simbolo, tipo)
         IN  IF t.simbolo = simbolo /\ t.vendido = 0 /\ t.tipo = tipo
             THEN <<t>> \o resto
             ELSE resto

\* the same SELECT without "AND vendido = 0"
obter_transacoes_com_vendidas(simbolo, tipo) ==
    SelectSeq(transacoes, LAMBDA t : t.simbolo = simbolo /\ t.tipo = tipo)

\* DatabaseManager.obter_transacoes(simbolo, tipo):
\* SELECT * FROM transacoes WHERE simbolo = ? AND vendido = 0 AND tipo = ?
obter_transacoes(simbolo, tipo) == Filtrar(transacoes, simbolo, tipo)

\* DatabaseManager.salvar_stop_loss: INSERT OR REPLACE INTO stop_loss
salvar_stop_loss(tabela, simbolo, stop, preco_maximo) ==
    [tabela EXCEPT ![simbolo] =
        [existe |-> TRUE, stop_loss |-> stop, preco_maximo |-> preco_maximo]]

\* DatabaseManager.obter_stop_loss: the row of the symbol, if any
obter_stop_loss(simbolo) == stop_loss[simbolo]

-----------------------------------------------------------------------------
(* TradingBot: the position of a symbol *)

RECURSIVE Acumular(_, _)
\* the loop of calcular_preco_medio_e_quantidade_banco over the rows
Acumular(linhas, acc) ==
    IF linhas = <<>> THEN acc
    ELSE LET t == Head(linhas)
         IN  Acumular(Tail(linhas),
                 [valor_total_compras |-> acc.valor_total_compras + t.quantidade * t.preco,
                  quantidade_total |-> acc.quantidade_total + t.quantidade,
                  taxas_total |-> acc.taxas_total + t.taxa])

\* TradingBot.calcular_preco_medio_e_quantidade_banco: preco_medio is the
\* quotient medio_num / medio_den; (0.0, 0.0, 0.0) without open buys
calcular_preco_medio_e_quantidade_banco(symbol) ==
    LET acc == Acumular(obter_transacoes(symbol, "COMPRA"),
                   [valor_total_compras |-> 0, quantidade_total |-> 0, taxas_total |-> 0])
    IN  IF acc.quantidade_total = 0
        THEN [medio_num |-> 0, medio_den |-> 1, quantidade_total |-> 0, taxas_total |-> 0]
        ELSE [medio_num |-> acc.valor_total_compras, medio_den |-> acc.quantidade_total,
              quantidade_total |-> acc.quantidade_total, taxas_total |-> acc.taxas_total]

-----------------------------------------------------------------------------
(* The exchange.  An order is answered "aceita" (filled) or "rejeitada"    *)
(* (BinanceAPIException); an order of quantity zero is never filled.       *)

Ordem(lado, tipo, quantidade, resposta) ==
    [lado |-> lado, tipo |-> tipo, quantidade |-> quantidade, resposta |-> resposta]

RespostasPossiveis(quantidade) ==
    IF quantidade = 0 THEN {"rejeitada"} ELSE {"aceita", "rejeitada"}

\* the answer to an order of this quantity, given the answer drawn for it
RespostaA(quantidade, resposta) ==
    IF resposta \in RespostasPossiveis(quantidade) THEN resposta ELSE "rejeitada"

\* what executar_ordem gives its caller: None, a raised exception, or the
\* tuple (preco, taxa); ordens are the orders it sent
Retorno(tipo, preco, taxa, ordens) ==
    [tipo |-> tipo, preco |-> preco, taxa |-> taxa, ordens |-> ordens]

-----------------------------------------------------------------------------
(* TradeExecutor: the sell branch, as TradingBot.vender calls it, with     *)
(* quantidade=str(quantidade_total_ajustada) and no moeda_venda            *)

\* TradeExecutor._ajustar_quantidade_venda on a str: "quantidade // step_size"
\* raises TypeError inside the try, the except returns 0
TE_ajustar_quantidade_venda_texto(quantidade) == 0

\* TradeExecutor._executar_ordem_sell: the order goes out; a rejection returns
\* None; after a fill, preco_venda["fills"] subscripts a float and raises
\* TypeError, which is not caught here
executar_ordem_sell(quantidade, resposta_dada) ==
    LET resposta == RespostaA(quantidade, resposta_dada)
        ordem == Ordem("SELL", "MARKET", quantidade, resposta)
    IN  IF resposta = "rejeitada"
        THEN Retorno("None", 0, 0, <<ordem>>)
        ELSE Retorno("raise", 0, 0, <<ordem>>)

\* TradeExecutor.executar_ordem(ordem_tipo="sell"): a partial sale multiplies
\* the str by 0.5 and raises TypeError before any order; otherwise
\* verificar_saldo_moedas(None) finds no asset and returns 0, so the str is kept,
\* _ajustar_quantidade_venda turns it into 0 and "0.000000" is sent
executar_ordem_sell_texto(info, quantidade, venda_parcial, resposta) ==
    IF get_lot_size_and_min_notional(info).erro THEN Retorno("raise", 0, 0, <<>>)
    ELSE IF venda_parcial THEN Retorno("raise", 0, 0, <<>>)
    ELSE executar_ordem_sell(TE_ajustar_quantidade_venda_texto(quantidade), resposta)

-----------------------------------------------------------------------------
(* TradingBot.vender *)

\* self.min_notional, the manual list read from the environment
MinNotionalConfig == [s \in {"BTCUSDT"} |-> 150]

\* min_notional_padrao of _ajustar_quantidade_para_notional
MinNotionalPadraoVenda == 10

\* TradingBot._ajustar_quantidade_para_notional: the quantity to sell as the
\* quotient num / den; 0.0 when the base-asset balance does not reach it
ajustar_quantidade_para_notional(symbol, quantidade, preco_atual, saldo_disponivel) ==
    LET min_notional == IF symbol \in DOMAIN MinNotionalConfig
                        THEN MinNotionalConfig[symbol]
                        ELSE MinNotionalPadraoVenda
    IN  IF preco_atual * quantidade < min_notional
        THEN IF min_notional > saldo_disponivel * preco_atual
             THEN [num |-> 0, den |-> 1]
             ELSE [num |-> min_notional, den |-> preco_atual]
        ELSE [num |-> quantidade, den |-> 1]

\* factor on the buy fees in controle_compra, in thousandths
FatorTaxasMilesimos == 1005

\* controle_compra >= preco_atual, with
\* controle_compra = preco_medio_compra + taxas_total_compras * 1.005
\* the guard with ">" for ">="
ControleBloqueiaSoAcima(pos, preco_atual) ==
    pos.medio_num * 1000 + pos.taxas_total * FatorTaxasMilesimos * pos.medio_den
        > preco_atual * 1000 * pos.medio_den

ControleBloqueia(pos, preco_atual) ==
    pos.medio_num * 1000 + pos.taxas_total * FatorTaxasMilesimos * pos.medio_den
        >= preco_atual * 1000 * pos.medio_den

\* TradingBot._calcular_ganhos; the amounts are numerators over den
calcular_ganhos(qNum, qDen, pos, preco_venda, taxa_venda) ==
    LET den == pos.medio_den * qDen
        valor_total_compras == pos.medio_num * qNum
        valor_total_vendas == preco_venda * qNum * pos.medio_den
        ganho_total == valor_total_vendas - valor_total_compras
                       - pos.taxas_total * den - taxa_venda * den
    IN  [den |-> den,
         valor_total_compras |-> valor_total_compras,
         valor_total_vendas |-> valor_total_vendas,
         ganho_total |-> ganho_total,
         porcentagem_num |-> IF valor_total_compras # 0 THEN ganho_total * 100 ELSE 0,
         porcentagem_den |-> IF valor_total_compras # 0 THEN valor_total_compras ELSE 1]

\* the arguments vender hands to DatabaseManager.registrar_ganhos
LinhaGanhos(symbol, qNum, qDen, pos, preco_venda, taxa) ==
    LET g == calcular_ganhos(qNum, qDen, pos, preco_venda, taxa)
    IN  [simbolo |-> symbol, den |-> g.den,
         valor_compras |-> g.valor_total_compras,
         valor_vendas |-> g.valor_total_vendas,
         taxa_compra |-> (pos.taxas_total + taxa) * g.den,
         ganhos |-> g.ganho_total,
         porcentagem_num |-> g.porcentagem_num,
         porcentagem_den |-> g.porcentagem_den,
         taxa_venda |-> taxa * g.den]

\* TradingBot._atualizar_resumo_financeiro with DatabaseManager's UPDATE: the
\* value written as valor_atual is the one just read from the same table; with an
\* empty table Decimal(str(None)) raises and nothing is written
atualizar_resumo_financeiro(tabela) ==
    IF tabela = <<>> THEN tabela
    ELSE LET inicial == tabela[1].valor_inicial
             atual == tabela[1].valor_atual
         IN  [i \in 1..Len(tabela) |->
                 IF tabela[i].valor_inicial = inicial
                 THEN [tabela[i] EXCEPT
                          !.valor_atual = atual,
                          !.porcentagem_num = IF inicial # 0 THEN (atual - inicial) * 100 ELSE 0,
                          !.porcentagem_den = IF inicial # 0 THEN inicial ELSE 1]
                 ELSE tabela[i]]

\* the VENDA row of lines 246-254; registrar_e_notificar_operacao formats the
\* quantity with "{:.8f}"
LinhaVenda(symbol, q, ret) ==
    Linha(symbol, "VENDA", ArredondaMeioPar(q.num, q.den), ret.preco, q.num * ret.preco,
          q.den, ret.taxa, 1)

\* DatabaseManager.atualizar_resumo_financeiro raises on Decimal(str(None))
\* when the table has no row: obter_valor_inicial returned None
ResumoFalha(tabela) == tabela = <<>>

\* vender after executar_ordem returned (preco_venda_real, taxa): the writes of
\* lines 244-297, for either action
RegistrarVenda(symbol, action, pos, q, ret) ==
    [transacoes |-> atualizar_compras(
                        registrar_transacao(transacoes, LinhaVenda(symbol, q, ret)), symbol),
     ganhos |-> Append(ganhos, LinhaGanhos(symbol, q.num, q.den, pos, ret.preco, ret.taxa)),
     resumo_financeiro |-> atualizar_resumo_financeiro(resumo_financeiro)]

\* the same when get_symbol_ticker raises in analisar_desempenho_venda: the
\* VENDA row is already written, the except of vender skips the rest
RegistrarVendaSemAnalise(symbol, q, ret) ==
    [transacoes |-> registrar_transacao(transacoes, LinhaVenda(symbol, q, ret)),
     ganhos |-> ganhos, resumo_financeiro |-> resumo_financeiro]

SemEscrita ==
    [transacoes |-> transacoes, ganhos |-> ganhos, resumo_financeiro |-> resumo_financeiro]

\* TradingBot.vender: the tables after the call, the orders sent and the
\* stage reached.  preco_ajuste and preco_controle are the two ticker prices
\* read, saldo_moeda the free base-asset balance, ret what executar_ordem
\* does, analise whether the ticker read of analisar_desempenho_venda works
vender(symbol, action, preco_ajuste, saldo_moeda, preco_controle, ret, analise) ==
    LET pos == calcular_preco_medio_e_quantidade_banco(symbol)
        q == ajustar_quantidade_para_notional(symbol, pos.quantidade_total,
                 preco_ajuste, saldo_moeda)
        parou(etapa) == [banco |-> SemEscrita, ordens |-> <<>>, etapa |-> etapa]
    IN  IF pos.quantidade_total = 0 THEN parou("sem_posicao")
        ELSE IF q.num <= 0 THEN parou("quantidade_zero")
        ELSE IF ControleBloqueia(pos, preco_controle) THEN parou("controle")
        ELSE IF ret.tipo = "None"
             THEN [banco |-> SemEscrita, ordens |-> ret.ordens, etapa |-> "ordem_falhou"]
        ELSE IF ret.tipo = "raise"
             THEN [banco |-> SemEscrita, ordens |-> ret.ordens, etapa |-> "excecao"]
        ELSE IF analise = "erro"
             THEN [banco |-> RegistrarVendaSemAnalise(symbol, q, ret),
                   ordens |-> ret.ordens, etapa |-> "excecao_analise"]
        ELSE [banco |-> RegistrarVenda(symbol, action, pos, q, ret),
              ordens |-> ret.ordens, etapa |-> "registrada"]

-----------------------------------------------------------------------------
(* TradeExecutor and TradingBot: the buy *)

\* stop_loss_percent handed to _configurar_stop_loss, in percent
StopLossPercent == 2

\* TradeExecutor._configurar_stop_loss: the STOP_LOSS_LIMIT order, if one is
\* created (stop_loss_price is kept as the quotient preco * 98 / 100)
configurar_stop_loss(quantidade, step_size, preco, saldo_disponivel, resposta) ==
    LET q == TE_ajustar_quantidade(quantidade, 1, step_size)
    IN  IF saldo_disponivel * 100 < q * preco * (100 - StopLossPercent)
        THEN <<>>
        ELSE <<Ordem("SELL", "STOP_LOSS_LIMIT", q, resposta)>>

\* what the exchange answers during one buy: the ticker price and the free
\* balance read by executar_ordem, the answer to the market order, the price
\* and commission of its fill, the balance read by _configurar_stop_loss (Erro
\* when that read raises BinanceAPIException), the answer to the stop order
Exchange(preco_atual, saldo, resposta, preco_compra, comissao, saldo_sl, resposta_sl) ==
    [preco_atual |-> preco_atual, saldo |-> saldo, resposta |-> resposta,
     preco_compra |-> preco_compra, comissao |-> comissao, saldo_sl |-> saldo_sl,
     resposta_sl |-> resposta_sl]

\* TradeExecutor._executar_ordem_buy: a rejection returns None; after a fill
\* verificar_saldo may raise BinanceAPIException, which the same except turns
\* into None
executar_ordem_buy(quantidade, step_size, x) ==
    LET resposta == RespostaA(quantidade, x.resposta)
        ordem == Ordem("BUY", "MARKET", quantidade, resposta)
    IN  IF resposta = "rejeitada" THEN Retorno("None", 0, 0, <<ordem>>)
        ELSE IF x.saldo_sl = Erro THEN Retorno("None", 0, 0, <<ordem>>)
        ELSE Retorno("ok", x.preco_compra, x.comissao * x.preco_compra,
                 <<ordem>> \o configurar_stop_loss(quantidade, step_size,
                                  x.preco_compra, x.saldo_sl, x.resposta_sl))

\* TradeExecutor.executar_ordem(ordem_tipo="buy")
executar_ordem_compra(info, quantidade, x) ==
    LET f == get_lot_size_and_min_notional(info)
    IN  IF f.erro THEN Retorno("raise", 0, 0, <<>>)
        ELSE LET q == DimensionarCompra(quantidade, f.lot_size, f.min_notional,
                          x.preco_atual, x.saldo)
             IN  IF q = Nenhum THEN Retorno("None", 0, 0, <<>>)
                 ELSE executar_ordem_buy(q, f.lot_size.stepSize, x)

\* risco_percentual of calcular_stake, in percent
RiscoPercentual == 1

\* TradingBot.calcular_stake: 1% of the free balance, as a quantity
calcular_stake(info, saldo_disponivel, preco_ativo) ==
    ajustar_quantidade(info, saldo_disponivel * RiscoPercentual, 100 * preco_ativo,
        preco_ativo)

\* comprar writing its row whatever executar_ordem returned
comprar_sem_verificar(key, stake, ret) ==
    [transacoes |-> registrar_transacao(transacoes,
                        Linha(key, "COMPRA", stake, ret.preco, stake * ret.preco, 1,
                              ret.taxa, 0)),
     ganhos |-> ganhos, resumo_financeiro |-> resumo_financeiro]

\* TradingBot.comprar: the tables after the call; the row written carries
\* float(stake), the fill price and the fee
comprar(key, stake, ret) ==
    IF ret.tipo = "ok"
    THEN [transacoes |-> registrar_transacao(transacoes,
                             Linha(key, "COMPRA", stake, ret.preco, stake * ret.preco, 1,
                                   ret.taxa, 0)),
          ganhos |-> ganhos, resumo_financeiro |-> resumo_financeiro]
    ELSE SemEscrita

-----------------------------------------------------------------------------
(* TradingBot.executar_estrategia_venda: the trailing stop.  stop_loss is  *)
(* stored in hundredths of the price unit.                                 *)

\* the stop is 0.97 of the maximum price, in percent
FatorStopPercent == 97

\* the stop recomputed from the price of every cycle, without the maximum
AtualizarStopSemCatraca(linha, preco_atual) ==
    [stop_loss |-> preco_atual * FatorStopPercent, preco_maximo |-> preco_atual]

\* the same update with the stop 5% below the maximum
AtualizarStopCincoPorCento(linha, preco_atual) ==
    IF ~linha.existe \/ preco_atual > linha.preco_maximo
    THEN [stop_loss |-> preco_atual * 95, preco_maximo |-> preco_atual]
    ELSE [stop_loss |-> linha.stop_loss, preco_maximo |-> linha.preco_maximo]

\* lines 714-720: the stop and the maximum after seeing preco_atual
AtualizarStop(linha, preco_atual) ==
    LET inicial == IF ~linha.existe
                   THEN [stop_loss |-> preco_atual * FatorStopPercent,
                         preco_maximo |-> preco_atual]
                   ELSE [stop_loss |-> linha.stop_loss, preco_maximo |-> linha.preco_maximo]
    IN  IF preco_atual > inicial.preco_maximo
        THEN [stop_loss |-> preco_atual * FatorStopPercent, preco_maximo |-> preco_atual]
        ELSE inicial

\* a trigger that never fires
StopNuncaAtingido(novo, preco_atual) == FALSE

\* line 723: preco_atual <= stop_loss_atual
StopAtingido(novo, preco_atual) == preco_atual * 100 <= novo.stop_loss

-----------------------------------------------------------------------------
(* Initial state: the tables as DatabaseManager._conectar creates them *)

SemLinha == [existe |-> FALSE, stop_loss |-> 0, preco_maximo |-> 0]

Symbols == <<"BTCUSDT", "ETHUSDT">>

Simbolos == {Symbols[i] : i \in 1..Len(Symbols)}

BancoVazio ==
    /\ transacoes = <<>>
    /\ ganhos = <<>>
    /\ resumo_financeiro = <<>>
    /\ stop_loss = [s \in Simbolos |-> SemLinha]

Init ==
    /\ BancoVazio
    /\ ciclo = "ocioso"
    /\ idx = 1
    /\ ultima = [op |-> "inicio"]
    /\ relogio = 0
    /\ ultimo_timestamp = Nenhum

-----------------------------------------------------------------------------
(* Spec: the two strategy loops of TradingBot against the exchange *)

\* bound on the number of rows of transacoes
MaxTransacoes == 1

\* what get_symbol_info / get_exchange_info report for each symbol
InfoExchange(s) ==
    IF s = "BTCUSDT"
    THEN InfoSimbolo(LotSize(100, 100000, 100), Ausente, 10000)
    ELSE InfoSimbolo(LotSize(100, 100000, 100), Ausente, Ausente)

Precos == {100, 110, 120}

Saldos == {5, 15000, 2000000}

SaldosMoeda == {0, 1000}

\* prices the ticker and the fills take while one handler runs
PrecosTicker == {100, 120}

Comissoes == {0, 1}

Respostas == {"aceita", "rejeitada"}

Dados == {"ok", "vazio", "erro"}

Analises == {"ok", "erro"}

\* the free balance calcular_stake reads
SaldosStake == {2000000}

\* the market order fills at the ticker price executar_ordem has just read
Exchanges ==
    {Exchange(p, sd, r, p, c, ssl, rsl) :
        p \in PrecosTicker, sd \in Saldos, r \in Respostas, c \in Comissoes,
        ssl \in {2000000, Erro}, rsl \in Respostas}

IniciarCiclo ==
    /\ ciclo = "ocioso"
    /\ \E c \in {"compra", "venda"} :
          /\ ciclo' = c
          /\ ultima' = [op |-> "iniciar", ciclo |-> c]
    /\ idx' = 1
    /\ UNCHANGED <<banco, script>>

\* the for loop is over: DatabaseManager.fechar_conexao, the process ends
FecharConexao ==
    /\ ciclo \in {"compra", "venda"}
    /\ idx > Len(Symbols)
    /\ ciclo' = "ocioso"
    /\ idx' = 1
    /\ ultima' = [op |-> "fim", ciclo |-> ciclo]
    /\ UNCHANGED <<banco, script>>

\* one iteration of the loop of executar_estrategia_compra without a buy:
\* no data ("continue"), an exception, or a strategy that does not say Comprar
CompraSemOrdem ==
    /\ ciclo = "compra"
    /\ idx <= Len(Symbols)
    /\ \E d \in Dados, acao \in {"Esperar", "Vender"} :
          ultima' = [op |-> "compra", simbolo |-> Symbols[idx], dados |-> d,
                     acao |-> IF d = "ok" THEN acao ELSE "nenhuma",
                     stake |-> 0, etapa |-> "sem_compra", ordens |-> <<>>]
    /\ idx' = idx + 1
    /\ UNCHANGED <<banco, ciclo, script>>

\* one iteration of the loop of executar_estrategia_compra with acao = Comprar:
\* calcular_stake, "continue" without a stake, then comprar
CompraSimbolo ==
    /\ ciclo = "compra"
    /\ idx <= Len(Symbols)
    /\ Len(transacoes) < MaxTransacoes
    /\ \E saldo \in SaldosStake, preco \in PrecosTicker, x \in Exchanges :
          LET key == Symbols[idx]
              stake == calcular_stake(InfoExchange(key), saldo, preco)
              ret == IF stake = Erro THEN Retorno("None", 0, 0, <<>>)
                     ELSE executar_ordem_compra(InfoExchange(key), stake, x)
              novo == comprar(key, stake, ret)
          IN  /\ transacoes' = novo.transacoes
              /\ ultima' = [op |-> "compra", simbolo |-> key, dados |-> "ok",
                            acao |-> "Comprar", stake |-> stake,
                            etapa |-> IF stake = Erro THEN "sem_stake" ELSE ret.tipo,
                            ordens |-> ret.ordens]
    /\ idx' = idx + 1
    /\ UNCHANGED <<ganhos, resumo_financeiro, stop_loss, ciclo, script>>

\* the same iteration if an exception left the for loop
VendaAbortaNoErro ==
    /\ ciclo = "venda"
    /\ idx <= Len(Symbols)
    /\ ultima' = [op |-> "venda", simbolo |-> Symbols[idx], dados |-> "erro", preco |-> 0,
                  disparo |-> FALSE, posicao |-> 0, etapa |-> "sem_dados",
                  ordens |-> <<>>]
    /\ idx' = Len(Symbols) + 1
    /\ UNCHANGED <<banco, ciclo, script>>

\* one iteration of the loop of executar_estrategia_venda that stops before
\* the stop-loss: df.empty ("continue") or an exception while preparing data
VendaSemDados ==
    /\ ciclo = "venda"
    /\ idx <= Len(Symbols)
    /\ \E d \in Dados \ {"ok"} :
          ultima' = [op |-> "venda", simbolo |-> Symbols[idx], dados |-> d, preco |-> 0,
                     disparo |-> FALSE, posicao |-> 0, etapa |-> "sem_dados",
                     ordens |-> <<>>]
    /\ idx' = idx + 1
    /\ UNCHANGED <<banco, ciclo, script>>

\* one iteration of the loop of executar_estrategia_venda with market data:
\* lines 706-732
VendaSimbolo ==
    /\ ciclo = "venda"
    /\ idx <= Len(Symbols)
    /\ \E preco_atual \in Precos :
          LET key == Symbols[idx]
              novo == AtualizarStop(obter_stop_loss(key), preco_atual)
              pos == calcular_preco_medio_e_quantidade_banco(key)
          IN  /\ IF StopAtingido(novo, preco_atual)
                 THEN \E preco_ajuste \in PrecosTicker, preco_controle \in PrecosTicker,
                         saldo_moeda \in SaldosMoeda, resposta \in Respostas,
                         analise \in Analises :
                         LET ret == executar_ordem_sell_texto(InfoExchange(key),
                                        pos.quantidade_total, FALSE, resposta)
                             v == vender(key, "Vender", preco_ajuste, saldo_moeda,
                                      preco_controle, ret, analise)
                         IN  /\ transacoes' = v.banco.transacoes
                             /\ ganhos' = v.banco.ganhos
                             /\ resumo_financeiro' = v.banco.resumo_financeiro
                             /\ ultima' = [op |-> "venda", simbolo |-> key, dados |-> "ok",
                                           preco |-> preco_atual, disparo |-> TRUE,
                                           preco_controle |-> preco_controle,
                                           posicao |-> pos.quantidade_total,
                                           etapa |-> v.etapa, ordens |-> v.ordens]
                 ELSE /\ UNCHANGED <<transacoes, ganhos, resumo_financeiro>>
                      /\ ultima' = [op |-> "venda", simbolo |-> key, dados |-> "ok",
                                    preco |-> preco_atual, disparo |-> FALSE,
                                    posicao |-> pos.quantidade_total,
                                    etapa |-> "sem_disparo", ordens |-> <<>>]
              /\ stop_loss' = salvar_stop_loss(stop_loss, key, novo.stop_loss,
                                  novo.preco_maximo)
    /\ idx' = idx + 1
    /\ UNCHANGED <<ciclo, script>>

Next ==
    \/ IniciarCiclo
    \/ FecharConexao
    \/ CompraSemOrdem
    \/ CompraSimbolo
    \/ VendaSemDados
    \/ VendaSimbolo

Spec == Init /\ [][Next]_vars

-----------------------------------------------------------------------------
(* Properties of the strategy loops *)

\* C1: for every symbol, the stop persisted in the stop_loss row never
\* decreases from one step to the next, and a row once written stays
C1_StopNaoDiminui ==
    [][\A s \in Simbolos :
          stop_loss[s].existe =>
              /\ stop_loss'[s].existe
              /\ stop_loss'[s].stop_loss >= stop_loss[s].stop_loss]_vars

\* a sell cycle saw a price below the stored maximum and the row kept its stop
C1_PrecoRecuou ==
    /\ ultima.op = "venda"
    /\ ultima.dados = "ok"
    /\ stop_loss[ultima.simbolo].existe
    /\ ultima.preco < stop_loss[ultima.simbolo].preco_maximo
    /\ stop_loss[ultima.simbolo].stop_loss =
           stop_loss[ultima.simbolo].preco_maximo * FatorStopPercent

\* C9: a sell-cycle iteration that finds the price at or below the stop of a
\* symbol with an open position submits a market sell of the whole position
C9_StopDisparaVenda ==
    (ultima.op = "venda" /\ ultima.dados = "ok" /\ ultima.disparo /\ ultima.posicao > 0)
        => \E i \in 1..Len(ultima.ordens) :
              /\ ultima.ordens[i].lado = "SELL"
              /\ ultima.ordens[i].tipo = "MARKET"
              /\ ultima.ordens[i].quantidade = ultima.posicao

\* C10: at the end of a cycle a symbol without open BUY rows has no
\* stop_loss row
C10_SemStopSemPosicao ==
    ultima.op = "fim" =>
        \A s \in Simbolos :
            obter_transacoes(s, "COMPRA") = <<>> => ~stop_loss[s].existe

\* C11: every sell-cycle iteration with market data evaluates the trigger
\* against the stop it persists, and when the triggered sale does not complete
\* (order rejected, guard or exception) the stop_loss row of the symbol exists
\* afterwards with a stop not below the one stored before
C11_VendaFalhaMantemStop ==
    [][(ultima'.op = "venda" /\ ultima'.dados = "ok") =>
          LET s == ultima'.simbolo
          IN  /\ ultima'.disparo = (ultima'.preco * 100 <= stop_loss'[s].stop_loss)
              /\ (ultima'.disparo /\ ultima'.etapa # "registrada") =>
                     /\ stop_loss'[s].existe
                     /\ stop_loss[s].existe =>
                            stop_loss'[s].stop_loss >= stop_loss[s].stop_loss]_vars

\* a triggered sale whose market order the exchange rejected, row still there
C11_VendaRejeitada ==
    /\ ultima.op = "venda"
    /\ ultima.dados = "ok"
    /\ ultima.disparo
    /\ ultima.posicao > 0
    /\ ultima.etapa = "ordem_falhou"
    /\ Len(ultima.ordens) = 1
    /\ ultima.ordens[1].resposta = "rejeitada"
    /\ stop_loss[ultima.simbolo].existe
    /\ ultima.preco * 100 <= stop_loss[ultima.simbolo].stop_loss

\* C14: inside a cycle every step, whatever its outcome, handles the symbol
\* at the loop position and moves the loop to the next symbol, and the cycle
\* ends (fechar_conexao) only after the last symbol, at which point it does
ProximoPasso ==
    ciclo # "ocioso" =>
        \/ /\ idx <= Len(Symbols)
           /\ ultima'.op = ciclo
           /\ ultima'.simbolo = Symbols[idx]
           /\ idx' = idx + 1
           /\ ciclo' = ciclo
        \/ /\ idx = Len(Symbols) + 1
           /\ ultima'.op = "fim"
           /\ ciclo' = "ocioso"

C14_LoopContinua ==
    /\ [][ProximoPasso]_vars
    /\ [](ciclo # "ocioso" =>
             /\ idx \in 1..(Len(Symbols) + 1)
             /\ ENABLED (FecharConexao \/ CompraSemOrdem \/ VendaSemDados))

\* the first symbol failed (no data, exception, or rejected order) and the
\* loop stands at the second symbol
C14_FalhouESeguiu ==
    /\ ciclo \in {"compra", "venda"}
    /\ idx = 2
    /\ ultima.op = ciclo
    /\ ultima.simbolo = Symbols[1]
    /\ \/ ultima.dados = "erro"
       \/ ultima.etapa \in {"ordem_falhou", "None", "raise"}

\* the last step sent a market order that the exchange rejected
OrdemRejeitada(u) ==
    /\ u.op \in {"compra", "venda"}
    /\ Len(u.ordens) >= 1
    /\ u.ordens[1].tipo = "MARKET"
    /\ u.ordens[1].resposta = "rejeitada"

\* C15: a step whose market order (buy or sell) was rejected leaves
\* transacoes, ganhos and resumo_financeiro as they were, and the stop_loss
\* table as the step leaves it without an order: untouched by a buy, and with
\* the stop and maximum of the price update by a sell-cycle iteration
C15_RejeicaoNaoEscreve ==
    [][OrdemRejeitada(ultima') =>
          /\ transacoes' = transacoes
          /\ ganhos' = ganhos
          /\ resumo_financeiro' = resumo_financeiro
          /\ stop_loss' =
                IF ultima'.op = "compra" THEN stop_loss
                ELSE LET s == ultima'.simbolo
                         novo == AtualizarStop(stop_loss[s], ultima'.preco)
                     IN  salvar_stop_loss(stop_loss, s, novo.stop_loss,
                             novo.preco_maximo)]_vars

\* a rejected market buy for a symbol that has a stop_loss row
C15_CompraRejeitada ==
    /\ ultima.op = "compra"
    /\ ultima.etapa = "None"
    /\ Len(ultima.ordens) = 1
    /\ ultima.ordens[1].lado = "BUY"
    /\ ultima.ordens[1].quantidade > 0
    /\ ultima.ordens[1].resposta = "rejeitada"
    /\ stop_loss[ultima.simbolo].existe

\* C16: one call of executar_ordem sends at most one order to the exchange
C16_UmaOrdemPorChamada ==
    ultima.op \in {"compra", "venda"} => Len(ultima.ordens) <= 1

\* C12: a buy recorded for a symbol without a stop_loss row creates the row,
\* with preco_maximo the fill price and stop_loss = preco_maximo * 0.97
C12_CompraAtivaStop ==
    [][(/\ ultima'.op = "compra"
        /\ ultima'.etapa = "ok"
        /\ ~stop_loss[ultima'.simbolo].existe) =>
          LET linha == stop_loss'[ultima'.simbolo]
              compra == transacoes'[Len(transacoes')]
          IN  /\ linha.existe
              /\ linha.preco_maximo = compra.preco
              /\ linha.stop_loss = linha.preco_maximo * FatorStopPercent]_vars

\* C22: a sell-cycle update that read market data leaves as stored maximum
\* the larger of the previous maximum and the current price, and as stored
\* stop the larger of the previous stop and 97% of that maximum (the stop is
\* kept in hundredths); with no previous row they are the price and 97% of
\* it.  Prices 100, 120, 110 give stops 97, 116.4, 116.4.
C22_PicoEStop ==
    [][(ultima'.op = "venda" /\ ultima'.dados = "ok") =>
          LET s == ultima'.simbolo
              antes == stop_loss[s]
              depois == stop_loss'[s]
              pico == IF antes.existe THEN Max(antes.preco_maximo, ultima'.preco)
                      ELSE ultima'.preco
          IN  /\ depois.existe
              /\ depois.preco_maximo = pico
              /\ depois.stop_loss =
                     IF antes.existe THEN Max(antes.stop_loss, pico * 97)
                     ELSE pico * 97
              /\ (ultima'.preco = 100 /\ ~antes.existe) => depois.stop_loss = 9700
              /\ (ultima'.preco = 120 /\ antes.existe /\ antes.preco_maximo = 100) =>
                     depois.stop_loss = 11640
              /\ (ultima'.preco = 110 /\ antes.existe /\ antes.preco_maximo = 120) =>
                     depois.stop_loss = 11640]_vars

\* the price pulled back to 110 under a stored maximum of 120 and the stop
\* stayed at 116.4
C22_Recuo110 ==
    /\ ultima.op = "venda"
    /\ ultima.dados = "ok"
    /\ ultima.preco = 110
    /\ stop_loss[ultima.simbolo].existe
    /\ stop_loss[ultima.simbolo].preco_maximo = 120
    /\ stop_loss[ultima.simbolo].stop_loss = 11640

\* the market orders of a step that the exchange filled
Preenchidas(ordens) ==
    {i \in DOMAIN ordens : ordens[i].tipo = "MARKET" /\ ordens[i].resposta = "aceita"}

\* C26: a step of either loop writes exactly one transacoes row per market
\* order the exchange filled in it, of the symbol processed and of the side
\* of the order (COMPRA for BUY, VENDA for SELL), whatever the executor did
\* after the fill.
C26_FillRegistrado ==
    [][ultima'.op \in {"compra", "venda"} =>
          LET fills == Preenchidas(ultima'.ordens)
              novas == SubSeq(transacoes', Len(transacoes) + 1, Len(transacoes'))
          IN  /\ Len(novas) = Cardinality(fills)
              /\ \A i \in fills :
                     \E j \in DOMAIN novas :
                         /\ novas[j].simbolo = ultima'.simbolo
                         /\ novas[j].tipo = IF ultima'.ordens[i].lado = "BUY"
                                            THEN "COMPRA" ELSE "VENDA"]_vars

\* C27: the quantity of a transacoes row written for a fill is the quantity
\* of the market order the exchange filled in that step, also when the
\* executor re-sized the quantity it was handed.
C27_QuantidadeRegistrada ==
    [][(ultima'.op \in {"compra", "venda"} /\ Len(transacoes') > Len(transacoes)) =>
          LET nova == transacoes'[Len(transacoes')]
          IN  \A i \in Preenchidas(ultima'.ordens) :
                  nova.quantidade = ultima'.ordens[i].quantidade]_vars

-----------------------------------------------------------------------------
(* SpecLedger: TradingBot.comprar and TradingBot.vender over the tables,   *)
(* with the injected trade_executor answering None, an exception or a      *)
(* tuple (preco, taxa)                                                     *)

\* bound on the number of rows of transacoes
MaxLinhas == 3

StakesLedger == {1, 2}

PrecosLedger == {100, 200}

TaxasLedger == {2}

\* the ticker price read by _ajustar_quantidade_para_notional
PrecosAjusteLedger == {100}

\* the ticker price read for controle_compra
PrecosControleLedger == {200}

SaldosMoedaLedger == {0, 2}

\* what trade_executor.executar_ordem may give its caller
RetornosLedger ==
    {Retorno("None", 0, 0, <<>>), Retorno("raise", 0, 0, <<>>)}
        \cup {Retorno("ok", p, t, <<>>) : p \in PrecosLedger, t \in TaxasLedger}

\* TradingBot.comprar
LedgerComprar ==
    /\ Len(transacoes) < MaxLinhas
    /\ \E key \in Simbolos, stake \in StakesLedger, ret \in RetornosLedger :
          /\ transacoes' = comprar(key, stake, ret).transacoes
          /\ ultima' = [op |-> "comprar", simbolo |-> key, action |-> "Comprar",
                        etapa |-> ret.tipo,
                        posicao |->
                            calcular_preco_medio_e_quantidade_banco(key).quantidade_total]
    /\ UNCHANGED <<ganhos, resumo_financeiro, stop_loss, ciclo, idx, script>>

\* TradingBot.vender with action Vender or VenderParcial
LedgerVender ==
    /\ Len(transacoes) < MaxLinhas
    /\ \E symbol \in Simbolos, action \in {"Vender", "VenderParcial"},
          preco_ajuste \in PrecosAjusteLedger, saldo_moeda \in SaldosMoedaLedger,
          preco_controle \in PrecosControleLedger, ret \in RetornosLedger,
          analise \in Analises :
          LET v == vender(symbol, action, preco_ajuste, saldo_moeda, preco_controle, ret,
                       analise)
          IN  /\ transacoes' = v.banco.transacoes
              /\ ganhos' = v.banco.ganhos
              /\ resumo_financeiro' = v.banco.resumo_financeiro
              /\ ultima' = [op |-> "vender", simbolo |-> symbol, action |-> action,
                            etapa |-> v.etapa,
                            posicao |->
                                calcular_preco_medio_e_quantidade_banco(symbol).quantidade_total]
    /\ UNCHANGED <<stop_loss, ciclo, idx, script>>

NextLedger ==
    \/ LedgerComprar
    \/ LedgerVender

SpecLedger == Init /\ [][NextLedger]_vars

-----------------------------------------------------------------------------
(* Properties of the ledger *)

\* the indices of the open BUY rows of a symbol
ComprasAbertas(s) ==
    {i \in 1..Len(transacoes) :
        /\ transacoes[i].simbolo = s
        /\ transacoes[i].tipo = "COMPRA"
        /\ transacoes[i].vendido = 0}

RECURSIVE SomaQuantidades(_)
SomaQuantidades(I) ==
    IF I = {} THEN 0
    ELSE LET i == CHOOSE j \in I : TRUE
         IN  transacoes[i].quantidade + SomaQuantidades(I \ {i})

RECURSIVE SomaValores(_)
SomaValores(I) ==
    IF I = {} THEN 0
    ELSE LET i == CHOOSE j \in I : TRUE
         IN  transacoes[i].quantidade * transacoes[i].preco + SomaValores(I \ {i})

VendaCompleta(u) == u.op = "vender" /\ u.etapa = "registrada"

RECURSIVE ProdutoDen(_)
\* a common denominator of the rows of a ganhos table
ProdutoDen(tabela) ==
    IF tabela = <<>> THEN 1 ELSE Head(tabela).den * ProdutoDen(Tail(tabela))

RECURSIVE SomaGanhos(_, _)
\* the sum of the ganhos column, as a numerator over the denominator d
SomaGanhos(tabela, d) ==
    IF tabela = <<>> THEN 0
    ELSE Head(tabela).ganhos * (d \div Head(tabela).den) + SomaGanhos(Tail(tabela), d)

RECURSIVE ValorComprasAbertas(_)
\* quantity * price summed over the open BUY rows of a transacoes table
ValorComprasAbertas(tabela) ==
    IF tabela = <<>> THEN 0
    ELSE LET t == Head(tabela)
         IN  (IF t.tipo = "COMPRA" /\ t.vendido = 0 THEN t.quantidade * t.preco ELSE 0)
                 + ValorComprasAbertas(Tail(tabela))

PosicaoCorreta(s) ==
    LET pos == calcular_preco_medio_e_quantidade_banco(s)
        I == ComprasAbertas(s)
    IN  /\ pos.quantidade_total = SomaQuantidades(I)
        /\ pos.medio_den > 0
        /\ pos.medio_num * SomaQuantidades(I) = SomaValores(I) * pos.medio_den
        /\ I = {} => (pos.medio_num = 0 /\ pos.taxas_total = 0)

\* C5: in every state the position of every symbol is the weighted mean and
\* the total over exactly its open BUY rows (zero without any), and after a
\* recorded buy the total quantity of the symbol is not below the total
\* before the buy (ultima.posicao)
C5_PosicaoMediaPonderada ==
    /\ \A s \in Simbolos : PosicaoCorreta(s)
    /\ (ultima.op = "comprar" /\ ultima.etapa = "ok") =>
           calcular_preco_medio_e_quantidade_banco(ultima.simbolo).quantidade_total
               >= ultima.posicao

\* a buy of 1 at 200 was recorded on top of an open buy of 1 at 100: the
\* position is 2 at 150
C5_DuasCompras ==
    /\ ultima.op = "comprar"
    /\ ultima.etapa = "ok"
    /\ ultima.posicao = 1
    /\ LET pos == calcular_preco_medio_e_quantidade_banco(ultima.simbolo)
           abertas == obter_transacoes(ultima.simbolo, "COMPRA")
       IN  /\ Len(abertas) = 2
           /\ abertas[1].quantidade = 1 /\ abertas[1].preco = 100
           /\ abertas[2].quantidade = 1 /\ abertas[2].preco = 200
           /\ pos.quantidade_total = 2
           /\ pos.medio_num = 150 * pos.medio_den

\* C24: no step removes a row of transacoes or changes a field of a written
\* row other than vendido, and vendido of a written row never decreases: it
\* goes from 0 to 1 and stays there.
C24_VendidoMonotono ==
    [][/\ Len(transacoes') >= Len(transacoes)
       /\ \A i \in 1..Len(transacoes) :
              /\ transacoes'[i].vendido >= transacoes[i].vendido
              /\ transacoes'[i].vendido \in {0, 1}
              /\ [transacoes'[i] EXCEPT !.vendido = 0] =
                     [transacoes[i] EXCEPT !.vendido = 0]]_vars

\* a purchase was recorded after a recorded sale closed an earlier purchase
\* of the same symbol, which is still closed
C24_FechadaEReaberta ==
    /\ ultima.op = "comprar"
    /\ Len(transacoes) = 3
    /\ transacoes[1].tipo = "COMPRA" /\ transacoes[1].vendido = 1
    /\ transacoes[2].tipo = "VENDA"
    /\ transacoes[3].tipo = "COMPRA" /\ transacoes[3].vendido = 0
    /\ transacoes[1].simbolo = transacoes[3].simbolo

LinhasDoSimbolo(tabela, s) == SelectSeq(tabela, LAMBDA l : l.simbolo = s)

-----------------------------------------------------------------------------
(* SpecAjuste: the two sizing functions applied to inputs drawn from       *)
(* bounded sets; minQty and maxQty are multiples of stepSize               *)

\* largest desired quantity, in halves of a unit, handed to ajustar_quantidade
MaxQuantidadeDesejada == 24

InfosAjuste ==
    {InfoSimbolo(LotSize(k * st, ma, st), mn, nt) :
        k \in {1, 2}, ma \in {10, 50}, st \in {1, 5, 10},
        mn \in {Ausente, 21}, nt \in {Ausente, 12}}
    \cup {Desconhecido(InfoSimbolo(LotSize(1, 10, 1), Ausente, 12)),
          SemLotSize(InfoSimbolo(LotSize(1, 10, 1), Ausente, 12))}

PrecosAjuste == {1, 3, 7}

AjustarQuantidadeOp ==
    \E info \in InfosAjuste, qNum \in 0..MaxQuantidadeDesejada, preco \in PrecosAjuste :
        /\ ultima' = [op |-> "ajustar_quantidade", info |-> info, qNum |-> qNum,
                      qDen |-> 2, preco |-> preco,
                      retorno |-> ajustar_quantidade(info, qNum, 2, preco)]
        /\ UNCHANGED <<banco, ciclo, idx, script>>

InfosCompra ==
    {InfoSimbolo(LotSize(mi, 100000, st), Ausente, nt) :
        mi \in {1, 100, 150}, st \in {1, 100}, nt \in {Ausente, 10000}}

QuantidadesCompra == {0, 50, 100, 150, 250}

PrecosCompra == {3, 100, 110}

SaldosCompra == {5, 9995, 20000, 2000000}

\* TradeExecutor.executar_ordem(ordem_tipo="buy") up to the call that sends
\* the order: retorno is the quantity sent, or Nenhum when nothing is sent
DimensionarCompraOp ==
    \E info \in InfosCompra, quantidade \in QuantidadesCompra,
       preco \in PrecosCompra, saldo \in SaldosCompra :
        LET f == get_lot_size_and_min_notional(info)
        IN  /\ ultima' = [op |-> "executar_ordem_buy", info |-> info,
                          quantidade |-> quantidade, lot_size |-> f.lot_size,
                          min_notional |-> f.min_notional,
                          preco_atual |-> preco, saldo |-> saldo,
                          retorno |-> DimensionarCompra(quantidade, f.lot_size,
                                          f.min_notional, preco, saldo)]
            /\ UNCHANGED <<banco, ciclo, idx, script>>

\* ajustar_intervalo_por_volatilidade of atualiza_stoploss_bot: the minutes
\* between two stop-loss recomputations, for a volatility in thousandths
\* (0.005 is 5, 0.01 is 10)
ajustar_intervalo_por_volatilidade(volatilidade) ==
    IF volatilidade < 5 THEN 30
    ELSE IF volatilidade < 10 THEN 15
    ELSE 5

\* standard deviations of the closing prices, in thousandths: two in each
\* bucket, the thresholds included
Volatilidades == {0, 4, 5, 9, 10, 25}

\* the script computing the interval from the volatility of the first symbol
AjustarIntervaloOp ==
    \E volatilidade \in Volatilidades :
        /\ ultima' = [op |-> "ajustar_intervalo", volatilidade |-> volatilidade,
                      retorno |-> ajustar_intervalo_por_volatilidade(volatilidade)]
        /\ UNCHANGED <<banco, ciclo, idx, script>>

\* the rows obter_stop_loss can return: none, or one the sell loop wrote
LinhasStop ==
    {SemLinha} \cup
    {[stop_loss |-> m * FatorStopPercent, preco_maximo |-> m, existe |-> TRUE] :
        m \in Precos}

\* lines 706-720 of executar_estrategia_venda on market data whose last
\* close is preco_atual and whose closes have the standard deviation
\* volatilidade (thousandths); the code reads only the last close
AtualizarStopOp ==
    \E linha \in LinhasStop, preco_atual \in Precos, volatilidade \in Volatilidades :
        /\ ultima' = [op |-> "atualizar_stop", linha |-> linha, preco |-> preco_atual,
                      volatilidade |-> volatilidade,
                      retorno |-> AtualizarStop(linha, preco_atual)]
        /\ UNCHANGED <<banco, ciclo, idx, script>>

NextAjuste ==
    \/ AjustarQuantidadeOp
    \/ DimensionarCompraOp
    \/ AjustarIntervaloOp
    \/ AtualizarStopOp

SpecAjuste == Init /\ [][NextAjuste]_vars

-----------------------------------------------------------------------------
(* Properties of the sizing functions, checked under SpecAjuste *)

AjusteRetornou ==
    /\ ultima.op = "ajustar_quantidade"
    /\ ultima.retorno # Erro

\* the step-floored desired quantity of the last ajustar_quantidade call
PisoDesejado == PisoNoPasso(ultima.qNum, ultima.qDen, ultima.info.LOT_SIZE.stepSize)

\* smallest multiple of step that is >= num / den
TetoNoPasso(num, den, step) == step * ArredondaParaCima(num, den * step)

\* C2: every quantity ajustar_quantidade returns is an exact integer multiple
\* of stepSize.
C2_MultiploDoPasso ==
    AjusteRetornou => ultima.retorno % ultima.info.LOT_SIZE.stepSize = 0

\* C6: when the step-floored desired quantity has notional below minNotional,
\* ajustar_quantidade returns ceil(minNotional / price) rounded up to the step
\* grid (limited to [minQty, maxQty]), so its notional is >= minNotional unless
\* maxQty forbids it; a floored quantity whose notional equals minNotional and
\* that lies in [minQty, maxQty] is returned unchanged.
C6_TetoNotional ==
    AjusteRetornou =>
        LET lot == ultima.info.LOT_SIZE
            mn == MinNotionalDoBot(ultima.info)
            teto == TetoNoPasso(mn, ultima.preco, lot.stepSize)
        IN  /\ PisoDesejado * ultima.preco < mn
                => /\ ultima.retorno = Min(Max(teto, lot.minQty), lot.maxQty)
                   /\ ultima.retorno * ultima.preco >= mn
                        \/ ultima.retorno = lot.maxQty
            /\ ( /\ PisoDesejado * ultima.preco = mn
                 /\ PisoDesejado >= lot.minQty
                 /\ PisoDesejado <= lot.maxQty )
                => ultima.retorno = PisoDesejado

CompraDimensionada == ultima.op = "executar_ordem_buy"

\* C7: no market buy is sent whose quantity * price is below minNotional, and
\* when the free balance is below minNotional the buy path returns None and
\* sends nothing.
C7_CompraRespeitaNotional ==
    CompraDimensionada =>
        /\ ultima.retorno # Nenhum
             => ultima.retorno * ultima.preco_atual >= ultima.min_notional
        /\ ultima.saldo < ultima.min_notional => ultima.retorno = Nenhum

\* C8: every market buy that is sent has quantity * price <= the free balance
\* read in that call.
C8_CompraCabeNoSaldo ==
    (CompraDimensionada /\ ultima.retorno # Nenhum)
        => ultima.retorno * ultima.preco_atual <= ultima.saldo

\* the exchange reported LOT_SIZE for the symbol and neither MIN_NOTIONAL nor
\* NOTIONAL
SemFiltroNotional(info) ==
    /\ info.encontrado
    /\ info.temLotSize
    /\ info.MIN_NOTIONAL = Ausente
    /\ info.NOTIONAL = Ausente

\* C18: for a symbol with LOT_SIZE and no minimum-notional filter,
\* ajustar_quantidade returns a quantity whose notional is at least 10 (unless
\* maxQty forbids it), and every buy executar_ordem sends has notional at
\* least 10.
C18_PadraoSemFiltro ==
    /\ (ultima.op = "ajustar_quantidade" /\ SemFiltroNotional(ultima.info)) =>
           /\ ultima.retorno # Erro
           /\ \/ ultima.retorno * ultima.preco >= MinNotionalPadraoDecimal
              \/ ultima.retorno = ultima.info.LOT_SIZE.maxQty
    /\ (CompraDimensionada /\ SemFiltroNotional(ultima.info)) =>
           /\ ~get_lot_size_and_min_notional(ultima.info).erro
           /\ ultima.retorno # Nenhum =>
                  ultima.retorno * ultima.preco_atual >= MinNotionalPadraoDecimal

\* C20: the interval returned for a volatility is at least the interval of
\* every lower volatility: interval(< 0.005) <= interval([0.005, 0.01)) <=
\* interval(>= 0.01).
C20_IntervaloMonotono ==
    ultima.op = "ajustar_intervalo" =>
        \A menor \in Volatilidades :
            menor <= ultima.volatilidade =>
                ajustar_intervalo_por_volatilidade(menor) <= ultima.retorno

\* the percentage below the peak that each volatility bucket calls for
PercentualDoBalde(volatilidade) ==
    IF volatilidade < 5 THEN 2
    ELSE IF volatilidade < 10 THEN 3
    ELSE 5

\* C21: when the update sets a candidate stop from a new peak, the stop is
\* the peak less 2% for volatility below 0.005, 3% for volatility in
\* [0.005, 0.01) and 5% for volatility of 0.01 or more.
C21_PercentualPorVolatilidade ==
    (/\ ultima.op = "atualizar_stop"
     /\ (~ultima.linha.existe \/ ultima.preco > ultima.linha.preco_maximo)) =>
        /\ ultima.retorno.preco_maximo = ultima.preco
        /\ ultima.retorno.stop_loss =
               ultima.preco * (100 - PercentualDoBalde(ultima.volatilidade))

\* C23: a quantity returned by ajustar_quantidade for a symbol with
\* minQty <= maxQty lies in [minQty, maxQty], and a buy quantity the
\* executor sends is at least minQty.
C23_DentroDoLote ==
    /\ (/\ ultima.op = "ajustar_quantidade"
        /\ ultima.retorno # Erro
        /\ ultima.info.LOT_SIZE.minQty <= ultima.info.LOT_SIZE.maxQty) =>
           /\ ultima.retorno >= ultima.info.LOT_SIZE.minQty
           /\ ultima.retorno <= ultima.info.LOT_SIZE.maxQty
    /\ (ultima.op = "executar_ordem_buy" /\ ultima.retorno # Nenhum) =>
           ultima.retorno >= ultima.lot_size.minQty

-----------------------------------------------------------------------------
(* SpecTelegram: TelegramNotifier.enviar_mensagem against every sequence   *)
(* of delivery outcomes                                                    *)

\* what one requests.post followed by raise_for_status does: succeed, or
\* raise ConnectionError, Timeout, or another RequestException
Entregas == {"ok", "conexao", "timeout", "erro"}

RECURSIVE Tentar(_, _, _)
\* the for loop of enviar_mensagem from iteration i on (i attempts made):
\* the number of posts made in all, and whether an exception left the method
Tentar(resultados, tentativas, i) ==
    IF i >= tentativas THEN [envios |-> i, levantou |-> FALSE]
    ELSE LET r == resultados[i + 1]
         IN  IF r = "ok" THEN [envios |-> i + 1, levantou |-> FALSE]
             ELSE IF r = "conexao" THEN Tentar(resultados, tentativas, i + 1)
             ELSE IF r = "timeout" THEN Tentar(resultados, tentativas, i + 1)
             ELSE IF r = "erro" THEN [envios |-> i + 1, levantou |-> FALSE]
             ELSE [envios |-> i + 1, levantou |-> TRUE]

\* the loop without its two break statements
enviar_mensagem_sem_break(resultados, tentativas) ==
    [envios |-> tentativas, levantou |-> FALSE]

\* TelegramNotifier.enviar_mensagem against the given delivery outcomes
enviar_mensagem(resultados, tentativas) == Tentar(resultados, tentativas, 0)

\* largest value of the parameter tentativas
MaxTentativas == 3

\* the outcomes of as many posts as the loop can make
SequenciasDeEntrega == [1..MaxTentativas -> Entregas]

EnviarMensagemOp ==
    \E resultados \in SequenciasDeEntrega, tentativas \in 0..MaxTentativas :
        /\ ultima' = [op |-> "enviar_mensagem", resultados |-> resultados,
                      tentativas |-> tentativas,
                      retorno |-> enviar_mensagem(resultados, tentativas)]
        /\ UNCHANGED <<banco, ciclo, idx, script>>

NextTelegram == EnviarMensagemOp

SpecTelegram == Init /\ [][NextTelegram]_vars

\* C25: enviar_mensagem posts at most tentativas times, every post before the
\* last one made failed with a connection error or a timeout (so nothing is
\* posted after a success or after another request error), it stops short of
\* tentativas only on a success or another request error, and it returns
\* without raising.
C25_EnvioLimitado ==
    ultima.op = "enviar_mensagem" =>
        LET n == ultima.retorno.envios
        IN  /\ n \in 0..ultima.tentativas
            /\ \A i \in 1..(n - 1) : ultima.resultados[i] \in {"conexao", "timeout"}
            /\ n < ultima.tentativas => ultima.resultados[n] \in {"ok", "erro"}
            /\ ~ultima.retorno.levantou

\* two retried failures and then a success, with an attempt to spare
C25_SucessoNaTerceira ==
    /\ ultima.op = "enviar_mensagem"
    /\ ultima.tentativas = 3
    /\ ultima.resultados[1] = "conexao"
    /\ ultima.resultados[2] = "timeout"
    /\ ultima.resultados[3] = "ok"
    /\ ultima.retorno.envios = 3

-----------------------------------------------------------------------------
(* SpecScript: runs of the script atualiza_stoploss_bot as time passes.    *)
(* The file ultima_execucao_stoploss.txt does not exist until the script   *)
(* writes it.                                                              *)

\* the last minute the clock reaches
MaxRelogio == 70

\* minutes between two observations of the clock
PassoDoRelogio == 5

\* ler_ultimo_timestamp: the recorded time, None without the file
ler_ultimo_timestamp == ultimo_timestamp

\* passou_tempo_suficiente at the current time
passou_tempo_suficiente(intervalo_minutos) ==
    IF ler_ultimo_timestamp = Nenhum THEN TRUE
    ELSE relogio - ler_ultimo_timestamp >= intervalo_minutos

\* bot.atualiza_stoploss(): TradingBot defines no attribute of that name, so
\* the call raises AttributeError and the script ends there
atualiza_stoploss == "AttributeError"

\* salvar_timestamp_atual: the time written to the file
salvar_timestamp_atual == relogio

\* one run of the script: market data of the first symbol, the interval for
\* its volatility, the elapsed-time test, the update and the timestamp
RodarScript ==
    \E dados \in Dados, volatilidade \in Volatilidades :
        LET intervalo_minutos == ajustar_intervalo_por_volatilidade(volatilidade)
            iniciou == dados = "ok" /\ passou_tempo_suficiente(intervalo_minutos)
        IN  /\ ultimo_timestamp' = IF iniciou /\ atualiza_stoploss = "ok"
                                   THEN salvar_timestamp_atual
                                   ELSE ultimo_timestamp
            /\ ultima' = [op |-> "script", dados |-> dados, volatilidade |-> volatilidade,
                          intervalo |-> intervalo_minutos, iniciou |-> iniciou,
                          relogio |-> relogio]
            /\ UNCHANGED <<banco, ciclo, idx, relogio>>

\* time passes between two runs
PassarTempo ==
    /\ relogio < MaxRelogio
    /\ relogio' = relogio + PassoDoRelogio
    /\ ultima' = [op |-> "tempo"]
    /\ UNCHANGED <<banco, ciclo, idx, ultimo_timestamp>>

NextScript == RodarScript \/ PassarTempo

SpecScript == Init /\ [][NextScript]_vars

\* C30: a run of the script starts the update only with no recorded
\* timestamp or with at least the chosen interval elapsed since it, a run
\* that starts the update records the current time as the timestamp, and
\* two runs that start the update are at least the interval chosen by the
\* second apart.
C30_IntervaloEntreAtualizacoes ==
    [][(ultima'.op = "script" /\ ultima'.iniciou) =>
          /\ \/ ultimo_timestamp = Nenhum
             \/ relogio - ultimo_timestamp >= ultima'.intervalo
          /\ ultimo_timestamp' = relogio
          /\ (ultima.op = "script" /\ ultima.iniciou) =>
                 relogio - ultima.relogio >= ultima'.intervalo]_vars

=============================================================================
